---- MODULE Spec2Model ----
(***************************************************************************)
(* Recipe resolver of the Satisfactory optimisation tool: the cycle        *)
(* analysis (Tarjan), the recursive combination generator with its memo    *)
(* cache and limits, the post-processing of the generated paths, and the   *)
(* condensation graph built from the index and the cycle analysis.         *)
(***************************************************************************)
EXTENDS Integers, Sequences, FiniteSets, TLC

VARIABLES recipeIndex, circularAnalysis, memoCache, lastCall, condensationGraph

vars == <<recipeIndex, circularAnalysis, memoCache, lastCall, condensationGraph>>

(***************************************************************************)
(* Bounds of the model.                                                    *)
(***************************************************************************)
\* Largest number of recipes of RecipePool loaded into one index.
MaxLoaded == 4

\* The combination ceiling.  The source sets 1000 (recipeCombinations.ts:32);
\* the model scales it down so that the ceiling is reached by the indexes
\* that MaxLoaded recipes can build.  Every comparison with it is the code's.
MAX_COMBINATIONS == 3

\* The depth limit.  The source sets 20 (recipeCombinations.ts:33), scaled
\* down for the same reason.
MAX_DEPTH == 2

(***************************************************************************)
(* Items and recipes.                                                      *)
(***************************************************************************)
Ore == "Desc_OreIron_C"
Ingot == "Desc_IronIngot_C"

\* The item identifiers of the model, in String.localeCompare order.
ItemOrder == <<"A", "B", "C", "D", Ingot, Ore, "W">>

Items == {ItemOrder[i] : i \in 1..Len(ItemOrder)}

BASE_RESOURCES ==
  {"Desc_OreIron_C", "Desc_OreCopper_C", "Desc_Stone_C", "Desc_Coal_C",
   "Desc_OreGold_C", "Desc_RawQuartz_C", "Desc_Sulfur_C", "Desc_OreBauxite_C",
   "Desc_OreUranium_C", "Desc_SAM_C", "Desc_Water_C", "Desc_LiquidOil_C",
   "Desc_NitrogenGas_C"}

\* The test that takes no item for a base resource.
isBaseResource_none(itemClassName) == FALSE

isBaseResource(itemClassName) == itemClassName \in BASE_RESOURCES

\* itemClassName.includes('Ingot'), tabulated over Items.
includesIngot(itemClassName) == itemClassName \in {Ingot}

Recipe(className, products, ingredients) ==
  [className |-> className, products |-> products, ingredients |-> ingredients]

\* The recipes an index is loaded from, in source order.
RecipePool ==
  << Recipe("a1", <<"A">>, <<"B">>),
     Recipe("a2", <<"A">>, <<"C", "B">>),
     Recipe("b1", <<"B">>, <<>>),
     Recipe("b2", <<"B">>, <<"A">>),
     Recipe("b3", <<"B">>, <<Ingot>>),
     Recipe("c1", <<"C">>, <<"D">>),
     Recipe("c2", <<"C">>, <<Ore, "W">>),
     Recipe("d1", <<"D">>, <<Ingot>>),
     Recipe("d2", <<"D", "C">>, <<"D", Ore>>),
     Recipe("i1", <<Ingot>>, <<Ore>>),
     Recipe("o1", <<Ore>>, <<"W">>),
     Recipe("z1", <<"B", "D">>, <<>>),
     Recipe("z2", <<"B", "C">>, <<>>),
     Recipe("z3", <<"B">>, <<>>),
     Recipe("b4", <<"B">>, <<"A", "C">>) >>

(***************************************************************************)
(* Sequence helpers.                                                       *)
(***************************************************************************)
Range(s) == {s[i] : i \in 1..Len(s)}

\* Array.prototype.indexOf, 1-based; 0 when absent.
IndexOf(s, x) ==
  IF x \in Range(s) THEN CHOOSE i \in 1..Len(s) : s[i] = x /\ \A j \in 1..(i-1) : s[j] # x
  ELSE 0

\* Insertion into a JavaScript Set or key list: appended unless present.
AddUnique(s, x) == IF x \in Range(s) THEN s ELSE Append(s, x)

RECURSIVE AddAllUnique(_, _)
AddAllUnique(s, xs) ==
  IF xs = <<>> THEN s ELSE AddAllUnique(AddUnique(s, Head(xs)), Tail(xs))

RECURSIVE Flatten(_)
Flatten(ss) == IF ss = <<>> THEN <<>> ELSE Head(ss) \o Flatten(Tail(ss))

Min(a, b) == IF a < b THEN a ELSE b

(***************************************************************************)
(* indexRecipesByProduct: item -> the recipes listing it as a product, in  *)
(* source order; keys in order of first insertion.                         *)
(***************************************************************************)
EmptyIndex == [keys |-> <<>>, recipes |-> [i \in Items |-> <<>>]]

RECURSIVE indexProducts(_, _, _)
indexProducts(index, recipe, products) ==
  IF products = <<>> THEN index
  ELSE LET p == Head(products) IN
       indexProducts([keys |-> AddUnique(index.keys, p),
                      recipes |-> [index.recipes EXCEPT ![p] = Append(@, recipe)]],
                     recipe, Tail(products))

RECURSIVE indexRecipesFrom(_, _)
indexRecipesFrom(index, recipes) ==
  IF recipes = <<>> THEN index
  ELSE indexRecipesFrom(indexProducts(index, Head(recipes), Head(recipes).products),
                        Tail(recipes))

indexRecipesByProduct(recipes) == indexRecipesFrom(EmptyIndex, recipes)

\* recipeIndex[item] || []
RecipesOf(index, item) == index.recipes[item]

\* The ingredients of the recipes listed under item, in loop order.
Successors(index, item) ==
  Flatten([k \in 1..Len(RecipesOf(index, item)) |-> RecipesOf(index, item)[k].ingredients])

(***************************************************************************)
(* findStronglyConnectedComponents (Tarjan).                               *)
(***************************************************************************)
\* allItems: the index keys, then every ingredient, in insertion order.
allItems(index) ==
  AddAllUnique(index.keys,
               Flatten([k \in 1..Len(index.keys) |-> Successors(index, index.keys[k])]))

TarjanInit ==
  [index |-> 0, indices |-> <<>>, lowLinks |-> <<>>, onStack |-> {},
   stack |-> <<>>, sccs |-> <<>>]

\* popSCC with the do-while run once: only the top of the stack is popped.
popSCC_once(st, scc, item) ==
  LET w == st.stack[Len(st.stack)]
  IN [st EXCEPT !.stack = SubSeq(@, 1, Len(@) - 1), !.onStack = @ \ {w},
                !.sccs = Append(@, Append(scc, w))]

\* do { w = stack.pop(); onStack.delete(w); scc.push(w) } while (w !== item)
RECURSIVE popSCC(_, _, _)
popSCC(st, scc, item) ==
  LET w == st.stack[Len(st.stack)]
      st1 == [st EXCEPT !.stack = SubSeq(@, 1, Len(@) - 1), !.onStack = @ \ {w}]
      scc1 == Append(scc, w)
  IN IF w # item THEN popSCC(st1, scc1, item)
     ELSE [st1 EXCEPT !.sccs = Append(@, scc1)]

RECURSIVE strongConnect(_, _, _)
RECURSIVE visitSuccessors(_, _, _, _)

\* visitSuccessors with the onStack test dropped: every visited successor
\* lowers the low-link.
RECURSIVE visitSuccessors_noOnStack(_, _, _, _)
visitSuccessors_noOnStack(index, st, item, succ) ==
  IF succ = <<>> THEN st
  ELSE LET successor == Head(succ) IN
       IF successor \notin DOMAIN st.indices
       THEN LET st1 == strongConnect(index, st, successor)
            IN visitSuccessors_noOnStack(index,
                 [st1 EXCEPT !.lowLinks[item] = Min(@, st1.lowLinks[successor])],
                 item, Tail(succ))
       ELSE visitSuccessors_noOnStack(index,
                 [st EXCEPT !.lowLinks[item] = Min(@, st.indices[successor])],
                 item, Tail(succ))

\* The two nested for-loops of strongConnect over the remaining successors.
visitSuccessors(index, st, item, succ) ==
  IF succ = <<>> THEN st
  ELSE LET successor == Head(succ) IN
       IF successor \notin DOMAIN st.indices
       THEN LET st1 == strongConnect(index, st, successor)
            IN visitSuccessors(index,
                 [st1 EXCEPT !.lowLinks[item] = Min(@, st1.lowLinks[successor])],
                 item, Tail(succ))
       ELSE IF successor \in st.onStack
       THEN visitSuccessors(index,
                 [st EXCEPT !.lowLinks[item] = Min(@, st.indices[successor])],
                 item, Tail(succ))
       ELSE visitSuccessors(index, st, item, Tail(succ))

strongConnect(index, st, item) ==
  LET st1 == [st EXCEPT !.indices = (item :> st.index) @@ @,
                        !.lowLinks = (item :> st.index) @@ @,
                        !.index = @ + 1,
                        !.stack = Append(@, item),
                        !.onStack = @ \cup {item}]
      st2 == visitSuccessors(index, st1, item, Successors(index, item))
  IN IF st2.lowLinks[item] = st2.indices[item] THEN popSCC(st2, <<>>, item) ELSE st2

\* for (const item of allItems) if (!indices.has(item)) strongConnect(item)
RECURSIVE runTarjan(_, _, _)
runTarjan(index, st, items) ==
  IF items = <<>> THEN st
  ELSE IF Head(items) \notin DOMAIN st.indices
       THEN runTarjan(index, strongConnect(index, st, Head(items)), Tail(items))
       ELSE runTarjan(index, st, Tail(items))

hasSelfLoop(item, index) ==
  \E k \in 1..Len(RecipesOf(index, item)) :
     item \in Range(RecipesOf(index, item)[k].ingredients)

\* isCircularSCC without the self-loop scan.
isCircularSCC_sizeOnly(scc, index) == Len(scc) > 1

\* scc.length > 1 || (scc.length === 1 && hasSelfLoop(scc[0], recipeIndex))
isCircularSCC(scc, index) ==
  Len(scc) > 1 \/ (Len(scc) = 1 /\ hasSelfLoop(scc[1], index))

\* itemToSCC: the (0-based) position of the SCC holding the item.
itemToSCCOf(sccs) ==
  LET covered == UNION {Range(sccs[n]) : n \in 1..Len(sccs)}
  IN [item \in covered |->
        (CHOOSE n \in 1..Len(sccs) :
            item \in Range(sccs[n]) /\ \A m \in (n+1)..Len(sccs) : item \notin Range(sccs[m])) - 1]

circularItemsOf(sccs, index) ==
  UNION {Range(sccs[n]) : n \in {m \in 1..Len(sccs) : isCircularSCC(sccs[m], index)}}

\* itemToSCC.get(x): a value, or undefined
SCCGet(itemToSCC, x) == IF x \in DOMAIN itemToSCC THEN itemToSCC[x] ELSE -1

\* circularRecipesOf flagging every recipe of a circular item.
circularRecipesOf_all(index, itemToSCC, circularItems) ==
  {r.className : r \in
     UNION {Range(RecipesOf(index, product))
            : product \in Range(index.keys) \cap circularItems}}

circularRecipesOf(index, itemToSCC, circularItems) ==
  {r.className : r \in
     UNION {{recipe \in Range(RecipesOf(index, product)) :
               \E ing \in Range(recipe.ingredients) :
                  SCCGet(itemToSCC, ing) = SCCGet(itemToSCC, product)}
            : product \in Range(index.keys) \cap circularItems}}

findStronglyConnectedComponents(index) ==
  LET st == runTarjan(index, TarjanInit, allItems(index))
      itemToSCC == itemToSCCOf(st.sccs)
      circularItems == circularItemsOf(st.sccs, index)
  IN [stronglyConnectedComponents |-> st.sccs,
      itemToSCC |-> itemToSCC,
      circularItems |-> circularItems,
      circularRecipes |-> circularRecipesOf(index, itemToSCC, circularItems),
      stack |-> st.stack,
      onStack |-> st.onStack]

(***************************************************************************)
(* RecipePath: a JavaScript object, modelled as the sequence of its        *)
(* entries in key insertion order.                                         *)
(***************************************************************************)
PathKeys(path) == {path[i].item : i \in 1..Len(path)}

PathHas(path, item) == item \in PathKeys(path)

\* path[item], for a key of the path
PathGet(path, item) == path[CHOOSE i \in 1..Len(path) : path[i].item = item].recipe

\* { ...path, [item]: recipe }: an existing key keeps its place.
PathPut(path, item, recipe) ==
  IF PathHas(path, item)
  THEN [i \in 1..Len(path) |->
          IF path[i].item = item THEN [item |-> item, recipe |-> recipe] ELSE path[i]]
  ELSE Append(path, [item |-> item, recipe |-> recipe])

\* { ...a, ...b }
RECURSIVE PathSpread(_, _)
PathSpread(a, b) ==
  IF b = <<>> THEN a ELSE PathSpread(PathPut(a, Head(b).item, Head(b).recipe), Tail(b))

(***************************************************************************)
(* The memo cache and its key.                                             *)
(***************************************************************************)
\* pathStack.join(SEP); SEP stands for the arrow U+2192 of the source.
RECURSIVE JoinStack(_)
JoinStack(pathStack) ==
  IF pathStack = <<>> THEN ""
  ELSE IF Len(pathStack) = 1 THEN pathStack[1]
  ELSE pathStack[1] \o ">" \o JoinStack(Tail(pathStack))

BoolString(b) == IF b THEN "true" ELSE "false"

getCacheKey(itemClassName, treatIngotsAsRaw, pathStack) ==
  itemClassName \o "|" \o BoolString(treatIngotsAsRaw) \o "|" \o JoinStack(pathStack)

\* clearMemoCache that leaves the entries in place.
clearMemoCache_keep(cache) == cache

\* memoCache.clear()
clearMemoCache(cache) == <<>>

(***************************************************************************)
(* generateRecipeCombinations.  st carries what the recursion mutates: the *)
(* counter combinationCount.count and the module-level memoCache, and what *)
(* the model records about the run: calls (invocations), hits (cache       *)
(* hits), maxDepth (the largest depth of a call), cut (which limits cut    *)
(* the run short) and expanded (for each call that reached the recipe      *)
(* loop: its depth, the counter on entry, whether its item was already on  *)
(* the path stack, its item and the recipes its loop goes through) and     *)
(* cycleCuts (for each call that found its item on the path stack: what it *)
(* was given and what it returned), hitCalls (the same for each call       *)
(* answered from the cache), merges (the pairs of paths the cartesian      *)
(* products merged, with the merged path) and truncations (for each        *)
(* product cut to the remaining budget: the counter, the size of the       *)
(* product, what was kept and the recipes left untried).  caching is TRUE  *)
(* in every run of the program.                                            *)
(***************************************************************************)
NewRunWith(ceiling, cache) ==
  [count |-> 0, memoCache |-> cache, calls |-> 0, hits |-> 0, cut |-> {},
   expanded |-> {}, maxDepth |-> 0, cycleCuts |-> {}, caching |-> TRUE,
   hitCalls |-> {}, merges |-> {}, truncations |-> {}, ceiling |-> ceiling]

\* The run of the program as scaled by MAX_COMBINATIONS.
NewRun(cache) == NewRunWith(MAX_COMBINATIONS, cache)

\* Array.prototype.slice(0, end)
Slice0(s, end) ==
  LET e == IF end < 0 THEN (IF Len(s) + end < 0 THEN 0 ELSE Len(s) + end)
           ELSE Min(end, Len(s))
  IN SubSeq(s, 1, e)

RECURSIVE cartesianProductWithCirculars(_)
cartesianProductWithCirculars(arrays) ==
  IF Len(arrays) = 0 THEN <<[path |-> <<>>, circulars |-> <<>>]>>
  ELSE IF Len(arrays) = 1 THEN arrays[1]
  ELSE LET first == Head(arrays)
           restProduct == cartesianProductWithCirculars(Tail(arrays))
           n == Len(restProduct)
       IN IF n = 0 \/ first = <<>> THEN <<>>
          ELSE [k \in 1..(Len(first) * n) |->
                  LET firstItem == first[((k - 1) \div n) + 1]
                      restItem == restProduct[((k - 1) % n) + 1]
                  IN [path |-> PathSpread(firstItem.path, restItem.path),
                      circulars |-> firstItem.circulars \o restItem.circulars]]

\* availableRecipes.filter(r => !circularRecipes.has(r.className))
RECURSIVE filterNonCircular(_, _)
filterNonCircular(recipes, circularRecipes) ==
  IF recipes = <<>> THEN <<>>
  ELSE (IF Head(recipes).className \in circularRecipes THEN <<>> ELSE <<Head(recipes)>>)
         \o filterNonCircular(Tail(recipes), circularRecipes)

\* The recipe choice without the fallback to the first recipe.
recipesToUseOf_noFallback(availableRecipes, analysis) ==
  filterNonCircular(availableRecipes, analysis.circularRecipes)

\* The recipe choice that keeps the recipes flagged circular.
recipesToUseOf_all(availableRecipes, analysis) == availableRecipes

recipesToUseOf(availableRecipes, analysis) ==
  LET nonCircularRecipes == filterNonCircular(availableRecipes, analysis.circularRecipes)
  IN IF Len(nonCircularRecipes) > 0 THEN nonCircularRecipes ELSE <<availableRecipes[1]>>

\* depth > MAX_DEPTH
depthExceeded(depth) == depth > MAX_DEPTH

\* combinationCount.count > MAX_COMBINATIONS
ceilingExceeded(count, ceiling) == count > ceiling

\* The cycle check never finding the item on the path stack.
onPathStack_never(pathStack, itemClassName) == FALSE

\* pathStack.includes(itemClassName)
onPathStack(pathStack, itemClassName) == itemClassName \in Range(pathStack)

\* The merges one call of cartesianProductWithCirculars performs: each
\* result of the first array with each result of the product of the rest.
RECURSIVE mergesOf(_)
mergesOf(arrays) ==
  IF Len(arrays) <= 1 THEN {}
  ELSE LET first == Head(arrays)
           restProduct == cartesianProductWithCirculars(Tail(arrays))
       IN mergesOf(Tail(arrays)) \cup
            {[first |-> first[j].path, rest |-> restProduct[k].path,
              merged |-> PathSpread(first[j].path, restProduct[k].path)] :
               j \in 1..Len(first), k \in 1..Len(restProduct)}

\* The edge of a cut that starts at the bottom of the path stack.
newCircularEdgeOf_bottom(pathStack, currentPath, itemClassName) ==
  [from |-> pathStack[1], to |-> itemClassName,
   recipeUsing |-> PathGet(currentPath, pathStack[1]).className]

\* The edge naming the item in place of the recipe that uses it.
newCircularEdgeOf_unnamed(pathStack, currentPath, itemClassName) ==
  [from |-> pathStack[Len(pathStack)], to |-> itemClassName,
   recipeUsing |-> pathStack[Len(pathStack)]]

\* newCircularEdge: from the item on top of the path stack to the repeated
\* item, under the recipe the current path holds for the top item.
newCircularEdgeOf(pathStack, currentPath, itemClassName) ==
  LET indexInPath == IndexOf(pathStack, itemClassName)
      circularTo == pathStack[indexInPath]
      circularFrom == pathStack[Len(pathStack)]
      recipeUsing == IF PathHas(currentPath, circularFrom)
                     THEN PathGet(currentPath, circularFrom).className
                     ELSE circularFrom
  IN [from |-> circularFrom, to |-> circularTo, recipeUsing |-> recipeUsing]

RECURSIVE generateRecipeCombinations(_, _, _, _, _, _, _, _, _)
RECURSIVE ingredientCombinationsOf(_, _, _, _, _, _, _, _, _, _)
RECURSIVE recipeLoop(_, _, _, _, _, _, _, _, _, _, _)

\* ingredients.map(ingredient => generateRecipeCombinations(ingredient, ...))
ingredientCombinationsOf(ingredients, index, analysis, treatIngotsAsRaw, newPath, newPathStack, circularEdges, depth, acc, st) ==
  IF ingredients = <<>> THEN [res |-> acc, st |-> st]
  ELSE LET r == generateRecipeCombinations(Head(ingredients), index, analysis,
                   treatIngotsAsRaw, newPath, newPathStack, circularEdges, depth, st)
       IN ingredientCombinationsOf(Tail(ingredients), index, analysis, treatIngotsAsRaw,
             newPath, newPathStack, circularEdges, depth, Append(acc, r.res), r.st)

\* for (const recipe of recipesToUse) { ... }
recipeLoop(itemClassName, index, analysis, treatIngotsAsRaw, currentPath, newPathStack, circularEdges, depth, recipes, allCombinations, st) ==
  IF recipes = <<>> THEN [res |-> allCombinations, st |-> st]
  ELSE
    LET recipe == Head(recipes)
        newPath == PathPut(currentPath, itemClassName, recipe)
        ingredients == recipe.ingredients
    IN IF Len(ingredients) = 0
       THEN recipeLoop(itemClassName, index, analysis, treatIngotsAsRaw, currentPath,
                       newPathStack, circularEdges, depth, Tail(recipes),
                       Append(allCombinations, [path |-> newPath, circulars |-> circularEdges]),
                       [st EXCEPT !.count = @ + 1])
       ELSE
         LET ing == ingredientCombinationsOf(ingredients, index, analysis,
                       treatIngotsAsRaw, newPath, newPathStack, circularEdges,
                       depth + 1, <<>>, st)
             combinedResults == cartesianProductWithCirculars(ing.res)
             merged == [ing.st EXCEPT !.merges = @ \cup mergesOf(ing.res)]
         IN IF ing.st.count + Len(combinedResults) > st.ceiling
            THEN LET remaining == st.ceiling - ing.st.count
                     kept == Slice0(combinedResults, remaining)
                 IN [res |-> allCombinations \o kept,
                     st |-> [merged EXCEPT
                               !.count = st.ceiling,
                               !.cut = @ \cup {"slice"},
                               !.truncations = @ \cup
                                  {[count |-> ing.st.count,
                                    product |-> combinedResults,
                                    kept |-> kept,
                                    countAfter |-> st.ceiling,
                                    untried |-> Len(Tail(recipes))]}]]
            ELSE recipeLoop(itemClassName, index, analysis, treatIngotsAsRaw, currentPath,
                            newPathStack, circularEdges, depth, Tail(recipes),
                            allCombinations \o combinedResults,
                            [merged EXCEPT !.count = @ + Len(combinedResults)])

generateRecipeCombinations(itemClassName, index, analysis, treatIngotsAsRaw, currentPath, pathStack, circularEdges, depth, st) ==
  LET cacheKey == getCacheKey(itemClassName, treatIngotsAsRaw, pathStack)
      st0 == [st EXCEPT !.calls = @ + 1,
                        !.maxDepth = IF depth > @ THEN depth ELSE @]
      leaf == <<[path |-> currentPath, circulars |-> circularEdges]>>
      availableRecipes == RecipesOf(index, itemClassName)
  IN IF cacheKey \in DOMAIN st.memoCache
     THEN [res |-> st.memoCache[cacheKey],
           st |-> [st0 EXCEPT !.hits = @ + 1,
                              !.hitCalls = @ \cup
                                 {[item |-> itemClassName, pathStack |-> pathStack,
                                   currentPath |-> currentPath,
                                   circularEdges |-> circularEdges, depth |-> depth,
                                   count |-> st.count,
                                   res |-> st.memoCache[cacheKey]]}]]
     ELSE IF isBaseResource(itemClassName)
     THEN [res |-> leaf, st |-> st0]
     ELSE IF treatIngotsAsRaw /\ includesIngot(itemClassName)
     THEN [res |-> leaf, st |-> st0]
     ELSE IF onPathStack(pathStack, itemClassName)
     THEN LET newCircularEdge == newCircularEdgeOf(pathStack, currentPath, itemClassName)
              res == <<[path |-> currentPath,
                        circulars |-> Append(circularEdges, newCircularEdge)]>>
          IN [res |-> res,
              st |-> [st0 EXCEPT !.cycleCuts = @ \cup
                        {[item |-> itemClassName, pathStack |-> pathStack,
                          currentPath |-> currentPath,
                          circularEdges |-> circularEdges, res |-> res]}]]
     ELSE IF Len(availableRecipes) = 0
     THEN [res |-> leaf, st |-> st0]
     ELSE IF depthExceeded(depth)
     THEN [res |-> leaf, st |-> [st0 EXCEPT !.cut = @ \cup {"depth"}]]
     ELSE IF ceilingExceeded(st.count, st.ceiling)
     THEN [res |-> <<>>, st |-> [st0 EXCEPT !.cut = @ \cup {"ceiling"}]]
     ELSE LET st1 == [st0 EXCEPT !.expanded = @ \cup
                        {[depth |-> depth, count |-> st.count,
                          repeated |-> itemClassName \in Range(pathStack),
                          item |-> itemClassName,
                          recipesToUse |-> recipesToUseOf(availableRecipes, analysis)]}]
              out == recipeLoop(itemClassName, index, analysis, treatIngotsAsRaw,
                                currentPath, Append(pathStack, itemClassName),
                                circularEdges, depth,
                                recipesToUseOf(availableRecipes, analysis), <<>>, st1)
          IN [res |-> out.res,
              st |-> [out.st EXCEPT !.memoCache =
                        IF st.caching THEN (cacheKey :> out.res) @@ @ ELSE @]]

(***************************************************************************)
(* Post-processing of getAllProductionCombinations.                        *)
(***************************************************************************)
\* Object.entries(path).sort(localeCompare).map(`${product}:${className}`).join('|')
RECURSIVE pathIdFrom(_, _)
pathIdFrom(path, order) ==
  IF order = <<>> THEN <<>>
  ELSE (IF PathHas(path, Head(order))
        THEN <<Head(order) \o ":" \o PathGet(path, Head(order)).className>>
        ELSE <<>>) \o pathIdFrom(path, Tail(order))

RECURSIVE JoinBar(_)
JoinBar(parts) ==
  IF parts = <<>> THEN ""
  ELSE IF Len(parts) = 1 THEN parts[1]
  ELSE parts[1] \o "|" \o JoinBar(Tail(parts))

pathId(path) == JoinBar(pathIdFrom(path, ItemOrder))

\* The post-processing keeping every raw result.
uniquePathsOf_all(allResults, kept) == kept \o allResults

\* uniquePaths: the first result of every pathId, in order of first insertion.
RECURSIVE uniquePathsOf(_, _)
uniquePathsOf(allResults, kept) ==
  IF allResults = <<>> THEN kept
  ELSE uniquePathsOf(Tail(allResults),
         IF \E i \in 1..Len(kept) : pathId(kept[i].path) = pathId(Head(allResults).path)
         THEN kept ELSE Append(kept, Head(allResults)))

\* The ingredient scan listing every ingredient as raw.
rawOfIngredients_all(ingredients, index, treatIngotsAsRaw, rawMaterials) ==
  AddAllUnique(rawMaterials, ingredients)

RECURSIVE rawOfIngredients(_, _, _, _)
rawOfIngredients(ingredients, index, treatIngotsAsRaw, rawMaterials) ==
  IF ingredients = <<>> THEN rawMaterials
  ELSE LET itemClass == Head(ingredients)
           hasRecipe == Len(RecipesOf(index, itemClass)) > 0
           isIngot == treatIngotsAsRaw /\ includesIngot(itemClass)
       IN rawOfIngredients(Tail(ingredients), index, treatIngotsAsRaw,
            IF ~hasRecipe \/ isBaseResource(itemClass) \/ isIngot
            THEN AddUnique(rawMaterials, itemClass) ELSE rawMaterials)

RECURSIVE rawOfPath(_, _, _, _)
rawOfPath(entries, index, treatIngotsAsRaw, rawMaterials) ==
  IF entries = <<>> THEN rawMaterials
  ELSE rawOfPath(Tail(entries), index, treatIngotsAsRaw,
         rawOfIngredients(Head(entries).recipe.ingredients, index, treatIngotsAsRaw,
                          rawMaterials))

extractRawMaterials(recipePath, index, treatIngotsAsRaw) ==
  rawOfPath(recipePath, index, treatIngotsAsRaw, <<>>)

RECURSIVE traverse(_, _, _)
RECURSIVE traverseAll(_, _, _)

traverseAll(ingredients, recipePath, vc) ==
  IF ingredients = <<>> THEN vc
  ELSE traverseAll(Tail(ingredients), recipePath, traverse(Head(ingredients), recipePath, vc))

\* vc: the visited set shared by the whole traversal, and the chain so far.
traverse(item, recipePath, vc) ==
  IF item \in vc.visited THEN vc
  ELSE LET vc1 == [vc EXCEPT !.visited = @ \cup {item}]
       IN IF ~PathHas(recipePath, item) THEN vc1
          ELSE LET recipe == PathGet(recipePath, item)
                   vc2 == traverseAll(recipe.ingredients, recipePath, vc1)
               IN [vc2 EXCEPT !.chain = Append(@, [product |-> item, recipe |-> recipe])]

\* The chain builder that visits nothing.
buildRecipeChain_empty(targetProduct, recipePath) == <<>>

buildRecipeChain(targetProduct, recipePath) ==
  traverse(targetProduct, recipePath, [visited |-> {}, chain |-> <<>>]).chain

ProductionCombination(targetProduct, index, treatIngotsAsRaw, result) ==
  [id |-> pathId(result.path),
   targetProduct |-> targetProduct,
   recipePath |-> result.path,
   rawMaterials |-> extractRawMaterials(result.path, index, treatIngotsAsRaw),
   circularEdges |-> result.circulars,
   recipeChain |-> buildRecipeChain(targetProduct, result.path)]

\* The call on the cache as it stands: the returned list, the cache left
\* behind, and the record of the run.
getAllProductionCombinationsWith(ceiling, targetProduct, index, analysis, treatIngotsAsRaw, cache) ==
  LET run == generateRecipeCombinations(targetProduct, index, analysis, treatIngotsAsRaw,
                <<>>, <<>>, <<>>, 0, NewRunWith(ceiling, clearMemoCache(cache)))
      uniquePaths == uniquePathsOf(run.res, <<>>)
  IN [combinations |->
        [i \in 1..Len(uniquePaths) |->
           ProductionCombination(targetProduct, index, treatIngotsAsRaw, uniquePaths[i])],
      allResults |-> run.res,
      run |-> run.st]

\* The call under the ceiling MAX_COMBINATIONS.
getAllProductionCombinations(targetProduct, index, analysis, treatIngotsAsRaw, cache) ==
  getAllProductionCombinationsWith(MAX_COMBINATIONS, targetProduct, index, analysis, treatIngotsAsRaw, cache)

(***************************************************************************)
(* buildCondensationGraph.  byProduct is the recipe index; the SCC list    *)
(* and circularItems are those of the cycle analysis of that index.  A     *)
(* recipe's id is its className here; display names are left out.          *)
(***************************************************************************)
\* The absent targetProduct argument.
NoTarget == ""

\* The map that sends every item to the first SCC.
productToSCCOf_zero(stronglyConnectedComponents) ==
  [product \in UNION {Range(stronglyConnectedComponents[n]) :
                        n \in 1..Len(stronglyConnectedComponents)} |-> 0]

\* productToSCC: each item of an SCC to the 0-based index of the last SCC
\* holding it.
productToSCCOf(stronglyConnectedComponents) ==
  LET sccs == stronglyConnectedComponents
      members == UNION {Range(sccs[n]) : n \in 1..Len(sccs)}
  IN [product \in members |->
        (CHOOSE n \in 1..Len(sccs) :
            /\ product \in Range(sccs[n])
            /\ \A m \in (n + 1)..Len(sccs) : product \notin Range(sccs[m])) - 1]

\* The breadth-first scan; reachable is the Set in insertion order.
RECURSIVE scanQueue(_, _, _)
scanQueue(queue, reachable, byProduct) ==
  IF queue = <<>> THEN reachable
  ELSE LET current == Head(queue)
       IN IF current \in Range(reachable)
          THEN scanQueue(Tail(queue), reachable, byProduct)
          ELSE LET reachable1 == Append(reachable, current)
                   pushed == SelectSeq(Successors(byProduct, current),
                                       LAMBDA ing : ing \notin Range(reachable1))
               IN scanQueue(Tail(queue) \o pushed, reachable1, byProduct)

findReachableProducts(targetProduct, byProduct) ==
  scanQueue(<<targetProduct>>, <<>>, byProduct)

\* relevantProducts, in iteration order.
relevantProductsOf(targetProduct, byProduct) ==
  IF targetProduct # NoTarget
  THEN findReachableProducts(targetProduct, byProduct)
  ELSE byProduct.keys

productNode(className, byProduct) ==
  [id |-> className, type |-> "product", className |-> className,
   recipeCount |-> Len(RecipesOf(byProduct, className)), isCircular |-> FALSE]

RECURSIVE recipeCountOf(_, _)
recipeCountOf(sccProducts, byProduct) ==
  IF sccProducts = <<>> THEN 0
  ELSE Len(RecipesOf(byProduct, Head(sccProducts)))
         + recipeCountOf(Tail(sccProducts), byProduct)

sccNode(sccIndex, scc, relevantProducts, byProduct) ==
  LET sccProducts == SelectSeq(scc, LAMBDA p : p \in Range(relevantProducts))
  IN [id |-> "scc-" \o ToString(sccIndex), type |-> "scc", products |-> sccProducts,
      recipeCount |-> recipeCountOf(sccProducts, byProduct), isCircular |-> TRUE]

\* The circularity test that takes every SCC for a cycle.
isActuallyCircular_always(scc, circularItems) == TRUE

isActuallyCircular(scc, circularItems) ==
  Len(scc) > 1 \/ (Len(scc) = 1 /\ scc[1] \in circularItems)

\* One turn of the node loop; ns holds nodes, processedSCCs and nodeIdMap.
nodeStep(ns, className, analysis, productToSCC, relevantProducts, byProduct) ==
  IF className \in DOMAIN productToSCC /\ productToSCC[className] \notin ns.processedSCCs
  THEN LET sccIndex == productToSCC[className]
           scc == analysis.stronglyConnectedComponents[sccIndex + 1]
       IN IF isActuallyCircular(scc, analysis.circularItems)
          THEN LET node == sccNode(sccIndex, scc, relevantProducts, byProduct)
               IN [nodes |-> Append(ns.nodes, node),
                   processedSCCs |-> ns.processedSCCs \cup {sccIndex},
                   nodeIdMap |-> [p \in Range(node.products) |-> node.id] @@ ns.nodeIdMap]
          ELSE [nodes |-> Append(ns.nodes, productNode(className, byProduct)),
                processedSCCs |-> ns.processedSCCs \cup {sccIndex},
                nodeIdMap |-> (className :> className) @@ ns.nodeIdMap]
  ELSE IF className \notin DOMAIN productToSCC
  THEN [nodes |-> Append(ns.nodes, productNode(className, byProduct)),
        processedSCCs |-> ns.processedSCCs,
        nodeIdMap |-> (className :> className) @@ ns.nodeIdMap]
  ELSE ns

RECURSIVE buildNodes(_, _, _, _, _, _)
buildNodes(ns, todo, analysis, productToSCC, relevantProducts, byProduct) ==
  IF todo = <<>> THEN ns
  ELSE buildNodes(nodeStep(ns, Head(todo), analysis, productToSCC, relevantProducts,
                           byProduct),
                  Tail(todo), analysis, productToSCC, relevantProducts, byProduct)

\* The recipes of the list that have an ingredient mapped to targetNodeId.
connectingRecipesOf(recipes, targetNodeId, nodeIdMap) ==
  LET connecting == SelectSeq(recipes, LAMBDA r :
                      \E ing \in Range(r.ingredients) :
                         ing \in DOMAIN nodeIdMap /\ nodeIdMap[ing] = targetNodeId)
  IN [k \in 1..Len(connecting) |-> connecting[k].className]

\* The edge test that lets an edge join a node to itself.
sameNode_never(sourceNodeId, targetNodeId) == FALSE

\* sourceNodeId === targetNodeId
sameNode(sourceNodeId, targetNodeId) == sourceNodeId = targetNodeId

\* One ingredient of one recipe of the product; es holds edges and edgeSet.
edgeStep(es, recipes, sourceNodeId, ingredient, nodeIdMap) ==
  IF ingredient \notin DOMAIN nodeIdMap THEN es
  ELSE LET targetNodeId == nodeIdMap[ingredient]
           edgeKey == sourceNodeId \o "->" \o targetNodeId
       IN IF sameNode(sourceNodeId, targetNodeId) THEN es
          ELSE IF edgeKey \in es.edgeSet THEN es
          ELSE LET connectingRecipes == connectingRecipesOf(recipes, targetNodeId, nodeIdMap)
               IN [edges |-> Append(es.edges,
                                    [source |-> sourceNodeId, target |-> targetNodeId,
                                     recipes |-> connectingRecipes,
                                     isMulti |-> Len(connectingRecipes) > 1]),
                   edgeSet |-> es.edgeSet \cup {edgeKey}]

RECURSIVE edgesOfIngredients(_, _, _, _, _)
edgesOfIngredients(es, recipes, sourceNodeId, ingredients, nodeIdMap) ==
  IF ingredients = <<>> THEN es
  ELSE edgesOfIngredients(edgeStep(es, recipes, sourceNodeId, Head(ingredients), nodeIdMap),
                          recipes, sourceNodeId, Tail(ingredients), nodeIdMap)

RECURSIVE buildEdges(_, _, _, _)
buildEdges(es, todo, nodeIdMap, byProduct) ==
  IF todo = <<>> THEN es
  ELSE LET productClassName == Head(todo)
           recipes == RecipesOf(byProduct, productClassName)
       IN buildEdges(IF productClassName \notin DOMAIN nodeIdMap THEN es
                     ELSE edgesOfIngredients(es, recipes, nodeIdMap[productClassName],
                                             Successors(byProduct, productClassName),
                                             nodeIdMap),
                     Tail(todo), nodeIdMap, byProduct)

\* The returned graph, with the relevant set and the node map it was built
\* from.
buildCondensationGraph(targetProduct, byProduct, analysis) ==
  LET productToSCC == productToSCCOf(analysis.stronglyConnectedComponents)
      relevantProducts == relevantProductsOf(targetProduct, byProduct)
      ns == buildNodes([nodes |-> <<>>, processedSCCs |-> {}, nodeIdMap |-> <<>>],
                       relevantProducts, analysis, productToSCC, relevantProducts,
                       byProduct)
      es == buildEdges([edges |-> <<>>, edgeSet |-> {}], relevantProducts,
                       ns.nodeIdMap, byProduct)
      sccNodeCount == Cardinality({k \in 1..Len(ns.nodes) : ns.nodes[k].type = "scc"})
  IN [nodes |-> ns.nodes,
      edges |-> es.edges,
      stats |-> [totalNodes |-> Len(ns.nodes),
                 productNodes |-> Len(ns.nodes) - sccNodeCount,
                 sccNodes |-> sccNodeCount,
                 totalEdges |-> Len(es.edges)],
      layout |-> [type |-> "dag", condensed |-> TRUE],
      relevantProducts |-> relevantProducts,
      nodeIdMap |-> ns.nodeIdMap]

(***************************************************************************)
(* The state machine.                                                      *)
(***************************************************************************)
NotAnalyzed == [stronglyConnectedComponents |-> <<>>, itemToSCC |-> <<>>,
                circularItems |-> {}, circularRecipes |-> {},
                stack |-> <<"?">>, onStack |-> {}]

NoCall == [kind |-> "none"]

NoGraph == [kind |-> "none"]

\* The recipe lists an index can be loaded from: at most MaxLoaded recipes
\* of the pool, kept in pool order.
RECURSIVE PoolSubSeq(_, _)
PoolSubSeq(chosen, k) ==
  IF k > Len(RecipePool) THEN <<>>
  ELSE (IF k \in chosen THEN <<RecipePool[k]>> ELSE <<>>) \o PoolSubSeq(chosen, k + 1)

Loadable ==
  {PoolSubSeq(S, 1) : S \in {T \in SUBSET (1..Len(RecipePool)) : Cardinality(T) <= MaxLoaded}}

Init ==
  /\ recipeIndex \in {indexRecipesByProduct(rs) : rs \in Loadable}
  /\ circularAnalysis = NotAnalyzed
  /\ memoCache = <<>>
  /\ lastCall = NoCall
  /\ condensationGraph = NoGraph

\* initializeRecipeData: the cycle analysis of the loaded index.
initializeRecipeData ==
  /\ circularAnalysis = NotAnalyzed
  /\ circularAnalysis' = findStronglyConnectedComponents(recipeIndex)
  /\ UNCHANGED <<recipeIndex, memoCache, lastCall, condensationGraph>>

\* The cache held, when the call began, an entry under the call's own
\* top-level key that differs from what the call computes.
StaleEntry(cache, targetProduct, treatIngotsAsRaw, allResults) ==
  LET key == getCacheKey(targetProduct, treatIngotsAsRaw, <<>>)
  IN key \in DOMAIN cache /\ cache[key] # allResults

\* One top-level call of getAllProductionCombinations by the calculator, in
\* a build whose MAX_COMBINATIONS is ceiling.
generateWith(ceiling, targetProduct, treatIngotsAsRaw) ==
  /\ circularAnalysis # NotAnalyzed
  /\ LET out == getAllProductionCombinationsWith(ceiling, targetProduct, recipeIndex,
                    circularAnalysis, treatIngotsAsRaw, memoCache)
     IN /\ memoCache' = out.run.memoCache
        /\ lastCall' = [kind |-> "generate",
                        targetProduct |-> targetProduct,
                        treatIngotsAsRaw |-> treatIngotsAsRaw,
                        combinations |-> out.combinations,
                        allResults |-> out.allResults,
                        count |-> out.run.count,
                        calls |-> out.run.calls,
                        hits |-> out.run.hits,
                        maxDepth |-> out.run.maxDepth,
                        cut |-> out.run.cut,
                        expanded |-> out.run.expanded,
                        cycleCuts |-> out.run.cycleCuts,
                        hitCalls |-> out.run.hitCalls,
                        merges |-> out.run.merges,
                        truncations |-> out.run.truncations,
                        ceiling |-> ceiling,
                        stale |-> StaleEntry(memoCache, targetProduct,
                                             treatIngotsAsRaw, out.allResults)]
  /\ UNCHANGED <<recipeIndex, circularAnalysis, condensationGraph>>

\* The call in the build scaled by MAX_COMBINATIONS.
generate(targetProduct, treatIngotsAsRaw) ==
  generateWith(MAX_COMBINATIONS, targetProduct, treatIngotsAsRaw)

\* The calculator loads another recipe list: the index and its analysis are
\* rebuilt, the module-level memo cache is not touched.
reload(recipes) ==
  /\ recipeIndex' = indexRecipesByProduct(recipes)
  /\ circularAnalysis' = findStronglyConnectedComponents(recipeIndex')
  /\ lastCall' = NoCall
  /\ UNCHANGED <<memoCache, condensationGraph>>

\* One index and its analysis.
NextAnalysis == initializeRecipeData

SpecAnalysis == Init /\ [][NextAnalysis]_vars

\* One index, its analysis, and one top-level call on it.
Next ==
  \/ initializeRecipeData
  \/ \E targetProduct \in Items, treatIngotsAsRaw \in BOOLEAN :
        lastCall = NoCall /\ generate(targetProduct, treatIngotsAsRaw)

Spec == Init /\ [][Next]_vars

\* A session of the calculator: any sequence of top-level calls, between
\* which the recipe list may be replaced by another of the session's lists.
MaxSessionLoaded == 2

SessionPool == SubSeq(RecipePool, 1, 5)

RECURSIVE SessionSubSeq(_, _)
SessionSubSeq(chosen, k) ==
  IF k > Len(SessionPool) THEN <<>>
  ELSE (IF k \in chosen THEN <<SessionPool[k]>> ELSE <<>>) \o SessionSubSeq(chosen, k + 1)

SessionLoadable ==
  {SessionSubSeq(S, 1) :
     S \in {T \in SUBSET (1..Len(SessionPool)) : Cardinality(T) <= MaxSessionLoaded}}

InitSession ==
  /\ recipeIndex \in {indexRecipesByProduct(rs) : rs \in SessionLoadable}
  /\ circularAnalysis = NotAnalyzed
  /\ memoCache = <<>>
  /\ lastCall = NoCall
  /\ condensationGraph = NoGraph

NextSession ==
  \/ initializeRecipeData
  \/ \E targetProduct \in Items, treatIngotsAsRaw \in BOOLEAN :
        generate(targetProduct, treatIngotsAsRaw)
  \/ \E recipes \in SessionLoadable : lastCall # NoCall /\ reload(recipes)

SpecSession == InitSession /\ [][NextSession]_vars

\* Indexes in which a two-item cycle (B <-> D) is reached from A along routes
\* of different lengths, so that the depth limit ends one route inside the
\* cycle while the other route cuts it.  A route of MAX_DEPTH + 1 items and a
\* second, shorter one raise the shared counter 2 * MAX_DEPTH + 1 times before
\* the target's own product is formed, so the depth limit is met below the
\* ceiling only in a build whose ceiling is that high; the program's is
\* (MAX_DEPTH 20, MAX_COMBINATIONS 1000).
MaxDeepLoaded == 4

DeepCeiling == 5

DeepPool ==
  << Recipe("a2", <<"A">>, <<"C", "B">>),
     Recipe("a1", <<"A">>, <<"B">>),
     Recipe("b1", <<"B">>, <<>>),
     Recipe("c1", <<"C">>, <<"D">>),
     Recipe("d3", <<"D">>, <<"B">>),
     Recipe("b5", <<"B">>, <<"D">>) >>

RECURSIVE DeepSubSeq(_, _)
DeepSubSeq(chosen, k) ==
  IF k > Len(DeepPool) THEN <<>>
  ELSE (IF k \in chosen THEN <<DeepPool[k]>> ELSE <<>>) \o DeepSubSeq(chosen, k + 1)

DeepLoadable ==
  {DeepSubSeq(S, 1) :
     S \in {T \in SUBSET (1..Len(DeepPool)) : Cardinality(T) <= MaxDeepLoaded}}

InitDeep ==
  /\ recipeIndex \in {indexRecipesByProduct(rs) : rs \in DeepLoadable}
  /\ circularAnalysis = NotAnalyzed
  /\ memoCache = <<>>
  /\ lastCall = NoCall
  /\ condensationGraph = NoGraph

NextDeep ==
  \/ initializeRecipeData
  \/ \E targetProduct \in Items, treatIngotsAsRaw \in BOOLEAN :
        lastCall = NoCall /\ generateWith(DeepCeiling, targetProduct, treatIngotsAsRaw)

SpecDeep == InitDeep /\ [][NextDeep]_vars

\* The graph view: buildCondensationGraph called with or without a target.
buildGraph(targetProduct) ==
  /\ circularAnalysis # NotAnalyzed
  /\ condensationGraph' =
       [kind |-> "graph", targetProduct |-> targetProduct] @@
         buildCondensationGraph(targetProduct, recipeIndex, circularAnalysis)
  /\ UNCHANGED <<recipeIndex, circularAnalysis, memoCache, lastCall>>

\* One index, its analysis, and one graph built from them.
NextGraph ==
  \/ initializeRecipeData
  \/ \E targetProduct \in Items \cup {NoTarget} :
        condensationGraph = NoGraph /\ buildGraph(targetProduct)

SpecGraph == Init /\ [][NextGraph]_vars

(***************************************************************************)
(* The ingredient graph, defined from the index alone.                     *)
(***************************************************************************)
\* A -> B when some recipe listed under A has B as an ingredient.
Edge(index, a, b) ==
  \E r \in Range(RecipesOf(index, a)) : b \in Range(r.ingredients)

\* Every index key and every ingredient of a listed recipe.
GraphItems(index) ==
  {i \in Items : RecipesOf(index, i) # <<>>}
    \cup {b \in Items : \E a \in Items : Edge(index, a, b)}

RECURSIVE ReachClosure(_, _)
ReachClosure(index, S) ==
  LET N == S \cup {b \in Items : \E a \in S : Edge(index, a, b)}
  IN IF N = S THEN S ELSE ReachClosure(index, N)

\* b is reachable from a along zero or more ingredient edges.
Reaches(index, a, b) == b \in ReachClosure(index, {a})

\* b is reachable from a along at least one ingredient edge.
ReachesPlus(index, a, b) ==
  \E c \in Items : Edge(index, a, c) /\ Reaches(index, c, b)

Acyclic(index) == \A a \in GraphItems(index) : ~ReachesPlus(index, a, a)

Analyzed == circularAnalysis # NotAnalyzed

SCCMembers(n) == Range(circularAnalysis.stronglyConnectedComponents[n])

\* The items sharing item's SCC index.
SameSCC(item) ==
  {u \in DOMAIN circularAnalysis.itemToSCC :
      circularAnalysis.itemToSCC[u] = circularAnalysis.itemToSCC[item]}

(***************************************************************************)
(* Claims about the cycle analysis.                                        *)
(***************************************************************************)
\* C1: the SCC list partitions the vertex set (index keys and ingredients):
\* each vertex is in exactly one SCC, once, at the index itemToSCC gives;
\* two vertices share an SCC exactly when each reaches the other; the Tarjan
\* stack is empty when the analysis ends.
C1_SCCPartition ==
  Analyzed =>
    LET sccs == circularAnalysis.stronglyConnectedComponents
        V == GraphItems(recipeIndex)
    IN /\ DOMAIN circularAnalysis.itemToSCC = V
       /\ \A n \in 1..Len(sccs) : SCCMembers(n) \subseteq V /\ sccs[n] # <<>>
       /\ \A v \in V :
            /\ Cardinality({n \in 1..Len(sccs) : v \in SCCMembers(n)}) = 1
            /\ v \in SCCMembers(circularAnalysis.itemToSCC[v] + 1)
            /\ \A n \in 1..Len(sccs) :
                 Cardinality({k \in 1..Len(sccs[n]) : sccs[n][k] = v}) <= 1
       /\ \A a, b \in V :
            (circularAnalysis.itemToSCC[a] = circularAnalysis.itemToSCC[b])
              <=> (Reaches(recipeIndex, a, b) /\ Reaches(recipeIndex, b, a))
       /\ circularAnalysis.stack = <<>>
       /\ circularAnalysis.onStack = {}

\* An analysed index with an SCC of two or more items beside other SCCs.
C1_Witness ==
  /\ Analyzed
  /\ Len(circularAnalysis.stronglyConnectedComponents) >= 3
  /\ \E n \in 1..Len(circularAnalysis.stronglyConnectedComponents) :
        Len(circularAnalysis.stronglyConnectedComponents[n]) >= 2

\* C2: an item is in circularItems exactly when its SCC has more than one
\* item or a recipe listed under it has the item itself as an ingredient.
C2_CircularItems ==
  Analyzed =>
    \A v \in GraphItems(recipeIndex) :
       (v \in circularAnalysis.circularItems)
         <=> (Cardinality(SameSCC(v)) > 1 \/ Edge(recipeIndex, v, v))

\* A self-loop item alone in its SCC is circular, and an item without
\* recipes is a singleton that is not.
C2_Witness ==
  /\ Analyzed
  /\ \E v \in circularAnalysis.circularItems :
        Edge(recipeIndex, v, v) /\ SameSCC(v) = {v}
  /\ \E u \in GraphItems(recipeIndex) :
        /\ RecipesOf(recipeIndex, u) = <<>>
        /\ SameSCC(u) = {u}
        /\ u \notin circularAnalysis.circularItems

\* C3: for an index without cycle the analysis gives no circular item, no
\* circular recipe and as many SCCs as distinct items.
C3_AcyclicAnalysis ==
  (Analyzed /\ Acyclic(recipeIndex)) =>
    /\ circularAnalysis.circularItems = {}
    /\ circularAnalysis.circularRecipes = {}
    /\ Len(circularAnalysis.stronglyConnectedComponents)
         = Cardinality(GraphItems(recipeIndex))

\* An analysed acyclic index in which an item is reached along two routes.
C3_Witness ==
  /\ Analyzed
  /\ Acyclic(recipeIndex)
  /\ \E a, b, c \in GraphItems(recipeIndex) :
        /\ Cardinality({a, b, c}) = 3
        /\ Edge(recipeIndex, a, c)
        /\ Edge(recipeIndex, b, c)
        /\ Reaches(recipeIndex, a, b)

\* The recipes listed under some item of the index.
ListedRecipes(index) == UNION {Range(RecipesOf(index, p)) : p \in Items}

\* The recipe is listed under a circular item P and has an ingredient with
\* P's SCC index.
ClosesCycle(r) ==
  \E p \in Items :
     /\ r \in Range(RecipesOf(recipeIndex, p))
     /\ p \in circularAnalysis.circularItems
     /\ \E ing \in Range(r.ingredients) :
          circularAnalysis.itemToSCC[ing] = circularAnalysis.itemToSCC[p]

\* C4: a recipe id is in circularRecipes exactly when the recipe is listed
\* under a circular item P and one of its ingredients is in P's SCC.
C4_CircularRecipes ==
  Analyzed =>
    /\ circularAnalysis.circularRecipes \subseteq
         {r.className : r \in ListedRecipes(recipeIndex)}
    /\ \A r \in ListedRecipes(recipeIndex) :
         (r.className \in circularAnalysis.circularRecipes) <=> ClosesCycle(r)

\* A circular item has a flagged recipe and a recipe that is not flagged.
C4_Witness ==
  /\ Analyzed
  /\ \E p \in circularAnalysis.circularItems :
       \E r, q \in Range(RecipesOf(recipeIndex, p)) :
          /\ r.className \in circularAnalysis.circularRecipes
          /\ q.className \notin circularAnalysis.circularRecipes

(***************************************************************************)
(* Claims about the combination generator.                                 *)
(***************************************************************************)
Generated == lastCall.kind = "generate"

\* Raw for the resolver: a base resource, an overridden ingot, or an item
\* the index has no recipe for.
IsRaw(index, treatIngotsAsRaw, item) ==
  \/ isBaseResource(item)
  \/ (treatIngotsAsRaw /\ includesIngot(item))
  \/ RecipesOf(index, item) = <<>>

\* No cycle among the items reachable from the target.
AcyclicFrom(index, target) ==
  \A a \in ReachClosure(index, {target}) : ~ReachesPlus(index, a, a)

\* A RecipePath as a function from its keys to the chosen recipes.
PathFunction(path) == [x \in PathKeys(path) |-> PathGet(path, x)]

\* The items a selection needs: the target and, for every needed item with a
\* chosen recipe, the non-raw ingredients of that recipe.
RECURSIVE Needed(_, _, _, _)
Needed(index, treatIngotsAsRaw, sel, S) ==
  LET N == S \cup {y \in Items :
                     /\ ~IsRaw(index, treatIngotsAsRaw, y)
                     /\ \E x \in S \cap DOMAIN sel : y \in Range(sel[x].ingredients)}
  IN IF N = S THEN S ELSE Needed(index, treatIngotsAsRaw, sel, N)

\* The consistent selections for a target: one recipe of its own for the
\* target and for every non-raw item the chosen recipes need, nothing else.
ConsistentSelections(index, treatIngotsAsRaw, target) ==
  IF IsRaw(index, treatIngotsAsRaw, target) THEN {<<>>}
  ELSE LET candidates == {x \in ReachClosure(index, {target}) :
                             ~IsRaw(index, treatIngotsAsRaw, x)}
       IN {sel \in UNION {[D -> ListedRecipes(index)] : D \in SUBSET candidates} :
             /\ \A x \in DOMAIN sel : sel[x] \in Range(RecipesOf(index, x))
             /\ DOMAIN sel = Needed(index, treatIngotsAsRaw, sel, {target})}

ReturnedSelections ==
  {PathFunction(lastCall.combinations[i].recipePath) :
     i \in 1..Len(lastCall.combinations)}

\* C5: with no limit reached and no cycle reachable from the target, the
\* returned combinations are exactly the consistent selections, and every
\* recipe of the target is the target's chosen recipe in one of them.
C5_AllSelections ==
  (Generated /\ lastCall.cut = {} /\ AcyclicFrom(recipeIndex, lastCall.targetProduct)) =>
    /\ ReturnedSelections =
         ConsistentSelections(recipeIndex, lastCall.treatIngotsAsRaw, lastCall.targetProduct)
    /\ ~IsRaw(recipeIndex, lastCall.treatIngotsAsRaw, lastCall.targetProduct) =>
         \A r \in Range(RecipesOf(recipeIndex, lastCall.targetProduct)) :
            \E sel \in ReturnedSelections : sel[lastCall.targetProduct] = r

\* C6: one top-level call never returns more combinations than the ceiling.
C6_AtMostCeiling ==
  Generated => Len(lastCall.combinations) <= MAX_COMBINATIONS

\* C7: when the target has more distinct valid combinations than the
\* ceiling, exactly the ceiling is returned.
C7_ExactlyCeiling ==
  (/\ Generated
   /\ AcyclicFrom(recipeIndex, lastCall.targetProduct)
   /\ Cardinality(ConsistentSelections(recipeIndex, lastCall.treatIngotsAsRaw,
                                       lastCall.targetProduct)) > MAX_COMBINATIONS)
    => Len(lastCall.combinations) = MAX_COMBINATIONS

\* The "not fewer" half of C7 alone.
C7_NotFewer ==
  (/\ Generated
   /\ AcyclicFrom(recipeIndex, lastCall.targetProduct)
   /\ Cardinality(ConsistentSelections(recipeIndex, lastCall.treatIngotsAsRaw,
                                       lastCall.targetProduct)) > MAX_COMBINATIONS)
    => Len(lastCall.combinations) >= MAX_COMBINATIONS

\* C8: every call of a session returns what the same call returns when made
\* first, on an empty memo cache, and leaves the cache that call leaves.
C8_FreshCache ==
  Generated =>
    LET fresh == getAllProductionCombinations(lastCall.targetProduct, recipeIndex,
                    circularAnalysis, lastCall.treatIngotsAsRaw, <<>>)
    IN /\ lastCall.combinations = fresh.combinations
       /\ lastCall.allResults = fresh.allResults
       /\ lastCall.hits = fresh.run.hits
       /\ memoCache = fresh.run.memoCache

\* A call made while the cache still held, under the call's own key, a
\* different result written by an earlier call.
C8_Witness == Generated /\ lastCall.stale

LoadedNumbers(index) ==
  {k \in 1..Len(RecipePool) : RecipePool[k] \in ListedRecipes(index)}

SubLists(index) == {PoolSubSeq(S, 1) : S \in SUBSET LoadedNumbers(index)}

\* C10: a result cut short by a limit differs from every exhaustive result,
\* so that the caller can tell from what is returned: no call that no limit
\* cut returns the same list.
C10_TruncationDetectable ==
  (Generated /\ lastCall.cut # {}) =>
    \A rs \in SubLists(recipeIndex) :
       LET index == indexRecipesByProduct(rs)
           other == getAllProductionCombinations(lastCall.targetProduct, index,
                       findStronglyConnectedComponents(index),
                       lastCall.treatIngotsAsRaw, <<>>)
       IN other.run.cut = {} => other.combinations # lastCall.combinations

(***************************************************************************)
(* Claims about the returned combinations.                                 *)
(***************************************************************************)
\* C11: every item listed in a returned combination's rawMaterials has no
\* recipe in the index, or is a base resource, or is an ingot while the
\* raw-override flag is set; and it is an ingredient of a chosen recipe.
C11_RawMaterials ==
  Generated =>
    \A i \in 1..Len(lastCall.combinations) :
       LET c == lastCall.combinations[i]
       IN \A k \in 1..Len(c.rawMaterials) :
            /\ \/ RecipesOf(recipeIndex, c.rawMaterials[k]) = <<>>
               \/ c.rawMaterials[k] \in BASE_RESOURCES
               \/ (lastCall.treatIngotsAsRaw /\ includesIngot(c.rawMaterials[k]))
            /\ \E e \in Range(c.recipePath) :
                  c.rawMaterials[k] \in Range(e.recipe.ingredients)

\* A combination lists an ingot that has a recipe (raw by the flag alone)
\* and a recipe-less item, while a chosen recipe has an ingredient that is
\* not raw and is not listed.
C11_Witness ==
  /\ Generated
  /\ \E i \in 1..Len(lastCall.combinations) :
       LET c == lastCall.combinations[i]
       IN /\ \E m \in Range(c.rawMaterials) :
               RecipesOf(recipeIndex, m) # <<>> /\ m \notin BASE_RESOURCES
          /\ \E m \in Range(c.rawMaterials) : RecipesOf(recipeIndex, m) = <<>>
          /\ \E e \in Range(c.recipePath) :
               \E y \in Range(e.recipe.ingredients) :
                  /\ ~IsRaw(recipeIndex, lastCall.treatIngotsAsRaw, y)
                  /\ y \notin Range(c.rawMaterials)

\* a's only recipe needs b, b's only recipe needs a, neither item is raw, and
\* whatever else the two recipes need is raw.
TwoCycle(index, treatIngotsAsRaw, a, b) ==
  /\ a # b
  /\ ~IsRaw(index, treatIngotsAsRaw, a)
  /\ ~IsRaw(index, treatIngotsAsRaw, b)
  /\ Len(RecipesOf(index, a)) = 1
  /\ Len(RecipesOf(index, b)) = 1
  /\ b \in Range(RecipesOf(index, a)[1].ingredients)
  /\ a \in Range(RecipesOf(index, b)[1].ingredients)
  /\ \A y \in Range(RecipesOf(index, a)[1].ingredients) \ {b} :
        IsRaw(index, treatIngotsAsRaw, y)
  /\ \A y \in Range(RecipesOf(index, b)[1].ingredients) \ {a} :
        IsRaw(index, treatIngotsAsRaw, y)

\* C12: for a two-item cycle A <-> B with one recipe each (RA, RB), the call
\* for A returns one combination with recipePath {A: RA, B: RB} and the one
\* circular edge from B to A using RB, and the analysis has A and B in one
\* SCC and both in circularItems.
C12_TwoItemCycle ==
  Generated =>
    \A b \in Items :
       TwoCycle(recipeIndex, lastCall.treatIngotsAsRaw, lastCall.targetProduct, b) =>
         LET a == lastCall.targetProduct
             RA == RecipesOf(recipeIndex, a)[1]
             RB == RecipesOf(recipeIndex, b)[1]
         IN /\ Len(lastCall.combinations) = 1
            /\ PathFunction(lastCall.combinations[1].recipePath) = (a :> RA) @@ (b :> RB)
            /\ lastCall.combinations[1].circularEdges =
                  <<[from |-> b, to |-> a, recipeUsing |-> RB.className]>>
            /\ circularAnalysis.itemToSCC[a] = circularAnalysis.itemToSCC[b]
            /\ SameSCC(a) = {a, b}
            /\ {a, b} \subseteq circularAnalysis.circularItems

\* A call for one item of a two-item cycle whose recipe also needs a raw
\* item.
C12_Witness ==
  /\ Generated
  /\ \E b \in Items :
       /\ TwoCycle(recipeIndex, lastCall.treatIngotsAsRaw, lastCall.targetProduct, b)
       /\ Len(RecipesOf(recipeIndex, lastCall.targetProduct)[1].ingredients) >= 2

\* The target is not raw and has one recipe, all of whose ingredients are
\* base resources or items without a recipe.
SingleRawRecipe(index, treatIngotsAsRaw, target) ==
  /\ ~IsRaw(index, treatIngotsAsRaw, target)
  /\ Len(RecipesOf(index, target)) = 1
  /\ \A y \in Range(RecipesOf(index, target)[1].ingredients) :
        isBaseResource(y) \/ RecipesOf(index, y) = <<>>

\* C13: a non-raw target with exactly one recipe whose ingredients are all
\* raw gets exactly one combination, whose recipePath and recipeChain hold
\* the target with that recipe alone and whose rawMaterials lists each
\* ingredient of the recipe once and nothing else.
C13_SingleRecipe ==
  (Generated /\ SingleRawRecipe(recipeIndex, lastCall.treatIngotsAsRaw,
                                 lastCall.targetProduct)) =>
    LET R == RecipesOf(recipeIndex, lastCall.targetProduct)[1]
    IN /\ Len(lastCall.combinations) = 1
       /\ lastCall.combinations[1].recipePath =
             <<[item |-> lastCall.targetProduct, recipe |-> R]>>
       /\ lastCall.combinations[1].recipeChain =
             <<[product |-> lastCall.targetProduct, recipe |-> R]>>
       /\ Range(lastCall.combinations[1].rawMaterials) = Range(R.ingredients)
       /\ Len(lastCall.combinations[1].rawMaterials) = Cardinality(Range(R.ingredients))
       /\ lastCall.combinations[1].circularEdges = <<>>

\* Such a target whose recipe needs a base resource that has a recipe of
\* its own in the index and an item without recipe.
C13_Witness ==
  /\ Generated
  /\ SingleRawRecipe(recipeIndex, lastCall.treatIngotsAsRaw, lastCall.targetProduct)
  /\ \E y, z \in Range(RecipesOf(recipeIndex, lastCall.targetProduct)[1].ingredients) :
        /\ isBaseResource(y) /\ RecipesOf(recipeIndex, y) # <<>>
        /\ ~isBaseResource(z) /\ RecipesOf(recipeIndex, z) = <<>>

\* The same with a recipe that has no ingredients.
C13_WitnessNoIngredients ==
  /\ Generated
  /\ SingleRawRecipe(recipeIndex, lastCall.treatIngotsAsRaw, lastCall.targetProduct)
  /\ RecipesOf(recipeIndex, lastCall.targetProduct)[1].ingredients = <<>>

\* The recipes listed under x that the analysis did not flag, in index
\* order.
NotFlagged(index, analysis, x) ==
  LET rs == RecipesOf(index, x)
      keep == {k \in 1..Len(rs) : rs[k].className \notin analysis.circularRecipes}
      nth[n \in 0..Len(rs)] ==
        IF n = 0 THEN <<>>
        ELSE IF n \in keep THEN Append(nth[n - 1], rs[n]) ELSE nth[n - 1]
  IN nth[Len(rs)]

\* C14: the recipes tried for an expanded item X are X's recipes that are
\* not flagged circular, in index order, or the first recipe of X alone when
\* all are flagged; so the recipe a returned recipePath holds for X is listed
\* under X and is not flagged, or is X's first recipe when all are flagged.
C14_CandidateRecipes ==
  Generated =>
    /\ \A e \in lastCall.expanded :
         LET free == NotFlagged(recipeIndex, circularAnalysis, e.item)
         IN e.recipesToUse =
              IF free # <<>> THEN free ELSE <<RecipesOf(recipeIndex, e.item)[1]>>
    /\ \A i \in 1..Len(lastCall.combinations) :
         \A en \in Range(lastCall.combinations[i].recipePath) :
            /\ en.recipe \in Range(RecipesOf(recipeIndex, en.item))
            /\ \/ en.recipe.className \notin circularAnalysis.circularRecipes
               \/ /\ NotFlagged(recipeIndex, circularAnalysis, en.item) = <<>>
                  /\ en.recipe = RecipesOf(recipeIndex, en.item)[1]

\* One returned recipePath holds, for an item whose first recipe is flagged
\* and skipped, a later recipe, and for an item with two recipes that are
\* all flagged, the first.
C14_Witness ==
  /\ Generated
  /\ \E i \in 1..Len(lastCall.combinations) :
       LET path == lastCall.combinations[i].recipePath
       IN /\ \E en \in Range(path) :
               /\ RecipesOf(recipeIndex, en.item)[1].className
                     \in circularAnalysis.circularRecipes
               /\ en.recipe # RecipesOf(recipeIndex, en.item)[1]
          /\ \E en \in Range(path) :
               /\ Len(RecipesOf(recipeIndex, en.item)) >= 2
               /\ NotFlagged(recipeIndex, circularAnalysis, en.item) = <<>>

\* The edges of the cycles met when the selection sel is walked from item x
\* below the items of stack as the resolver walks: an ingredient that is on
\* the walk already closes a cycle, from the item whose recipe needs it; the
\* walk ends at raw items, at items without chosen recipe and below the
\* depth limit.
RECURSIVE CyclesMet(_, _, _, _)
CyclesMet(sel, treatIngotsAsRaw, x, stack) ==
  IF isBaseResource(x) \/ (treatIngotsAsRaw /\ includesIngot(x)) THEN {}
  ELSE IF x \in Range(stack)
  THEN {[from |-> stack[Len(stack)], to |-> x,
         recipeUsing |-> sel[stack[Len(stack)]].className]}
  ELSE IF x \notin DOMAIN sel \/ Len(stack) > MAX_DEPTH THEN {}
  ELSE UNION {CyclesMet(sel, treatIngotsAsRaw, y, Append(stack, x)) :
                y \in Range(sel[x].ingredients)}

\* C15: a call whose item is on the path stack (and is neither a base
\* resource nor raw-overridden) returns one result: the given path, and the
\* given edges followed by the edge from the top of the stack to the item
\* under the recipe chosen for the top of the stack.  A returned combination
\* whose chosen recipes lead from the target back to an item already on the
\* way carries the edge of that cut.
C15_CycleCut ==
  Generated =>
    /\ \A c \in lastCall.cycleCuts :
         LET top == c.pathStack[Len(c.pathStack)]
         IN /\ c.item \in Range(c.pathStack)
            /\ ~isBaseResource(c.item)
            /\ ~(lastCall.treatIngotsAsRaw /\ includesIngot(c.item))
            /\ PathHas(c.currentPath, top)
            /\ c.res = <<[path |-> c.currentPath,
                          circulars |-> Append(c.circularEdges,
                             [from |-> top, to |-> c.item,
                              recipeUsing |-> PathGet(c.currentPath, top).className])]>>
    /\ \A i \in 1..Len(lastCall.combinations) :
         CyclesMet(PathFunction(lastCall.combinations[i].recipePath),
                   lastCall.treatIngotsAsRaw, lastCall.targetProduct, <<>>)
           \subseteq Range(lastCall.combinations[i].circularEdges)

\* A cut under a stack of two or more items that closes a cycle through
\* several items, whose edge a returned combination carries.
C15_Witness ==
  /\ Generated
  /\ \E c \in lastCall.cycleCuts :
       /\ Len(c.pathStack) >= 2
       /\ c.item # c.pathStack[Len(c.pathStack)]
       /\ \E i \in 1..Len(lastCall.combinations) :
            c.res[1].circulars[Len(c.res[1].circulars)]
              \in Range(lastCall.combinations[i].circularEdges)

(***************************************************************************)
(* Claims about the condensation graph.                                    *)
(***************************************************************************)
Built == condensationGraph.kind = "graph"

NodeIds == {condensationGraph.nodes[k].id : k \in 1..Len(condensationGraph.nodes)}

\* The node lists the item: as its className, or among a meta-node's
\* products.
Lists(node, x) ==
  IF node.type = "scc" THEN x \in Range(node.products) ELSE node.className = x

\* The node ids reached from the ids of S along emitted edges.
RECURSIVE NodesReached(_)
NodesReached(S) ==
  LET N == S \cup {e.target : e \in {x \in Range(condensationGraph.edges) : x.source \in S}}
  IN IF N = S THEN S ELSE NodesReached(N)

\* C16: the emitted edges join emitted nodes, none joins a node to itself,
\* and no node is reached from itself along one or more edges.
C16_Dag ==
  Built =>
    /\ \A e \in Range(condensationGraph.edges) :
         /\ e.source \in NodeIds
         /\ e.target \in NodeIds
         /\ e.source # e.target
    /\ \A n \in NodeIds :
         n \notin NodesReached({e.target : e \in {x \in Range(condensationGraph.edges) :
                                                     x.source = n}})

\* A graph with a meta-node of two items and a self-loop meta-node, one of
\* them with an edge coming in and one with an edge going out.
C16_Witness ==
  /\ Built
  /\ \E k \in 1..Len(condensationGraph.nodes) :
       /\ condensationGraph.nodes[k].type = "scc"
       /\ Len(condensationGraph.nodes[k].products) >= 2
       /\ \E e \in Range(condensationGraph.edges) :
            e.source = condensationGraph.nodes[k].id
  /\ \E k \in 1..Len(condensationGraph.nodes) :
       /\ condensationGraph.nodes[k].type = "scc"
       /\ Len(condensationGraph.nodes[k].products) = 1
       /\ \E e \in Range(condensationGraph.edges) :
            e.target = condensationGraph.nodes[k].id

\* C17: without target every item that is a recipe output or a recipe
\* ingredient of the index is mapped to a node that lists it, and every
\* dependency between items of different nodes has its edge.
C17_AllItemsCovered ==
  (Built /\ condensationGraph.targetProduct = NoTarget) =>
    /\ \A x \in GraphItems(recipeIndex) :
         /\ x \in DOMAIN condensationGraph.nodeIdMap
         /\ \E k \in 1..Len(condensationGraph.nodes) :
              /\ Lists(condensationGraph.nodes[k], x)
              /\ condensationGraph.nodes[k].id = condensationGraph.nodeIdMap[x]
    /\ \A a, b \in GraphItems(recipeIndex) \cap DOMAIN condensationGraph.nodeIdMap :
         (Edge(recipeIndex, a, b)
            /\ condensationGraph.nodeIdMap[a] # condensationGraph.nodeIdMap[b])
           => \E e \in Range(condensationGraph.edges) :
                /\ e.source = condensationGraph.nodeIdMap[a]
                /\ e.target = condensationGraph.nodeIdMap[b]

\* C17 for the recipe outputs alone.
C17_OutputsCovered ==
  (Built /\ condensationGraph.targetProduct = NoTarget) =>
    /\ Range(condensationGraph.relevantProducts) = Range(recipeIndex.keys)
    /\ DOMAIN condensationGraph.nodeIdMap = Range(recipeIndex.keys)
    /\ \A a, b \in Range(recipeIndex.keys) :
         (Edge(recipeIndex, a, b)
            /\ condensationGraph.nodeIdMap[a] # condensationGraph.nodeIdMap[b])
           => \E e \in Range(condensationGraph.edges) :
                /\ e.source = condensationGraph.nodeIdMap[a]
                /\ e.target = condensationGraph.nodeIdMap[b]

\* C18: when no cycle is reachable from the target, the scan ends with each
\* item reachable from the target (the target included) once and nothing
\* else, no meta-node is emitted, and the nodes are one plain node per
\* reachable item, so sccNodes = 0 and totalNodes is the number of reachable
\* items.
C18_AcyclicSubgraph ==
  (/\ Built
   /\ condensationGraph.targetProduct # NoTarget
   /\ AcyclicFrom(recipeIndex, condensationGraph.targetProduct)) =>
    LET reach == ReachClosure(recipeIndex, {condensationGraph.targetProduct})
        nodes == condensationGraph.nodes
    IN /\ Range(condensationGraph.relevantProducts) = reach
       /\ Len(condensationGraph.relevantProducts) = Cardinality(reach)
       /\ \A k \in 1..Len(nodes) : nodes[k].type = "product"
       /\ {nodes[k].className : k \in 1..Len(nodes)} = reach
       /\ Len(nodes) = Cardinality(reach)
       /\ condensationGraph.stats.sccNodes = 0
       /\ condensationGraph.stats.totalNodes = Cardinality(reach)
       /\ condensationGraph.stats.productNodes = Cardinality(reach)

\* An acyclic subgraph in which an item is reached along two routes, in an
\* index that has a cycle elsewhere.
C18_Witness ==
  /\ Built
  /\ condensationGraph.targetProduct # NoTarget
  /\ AcyclicFrom(recipeIndex, condensationGraph.targetProduct)
  /\ circularAnalysis.circularItems # {}
  /\ \E a, b, c \in ReachClosure(recipeIndex, {condensationGraph.targetProduct}) :
        /\ Cardinality({a, b, c}) = 3
        /\ Edge(recipeIndex, a, b)
        /\ Edge(recipeIndex, a, c)
        /\ Edge(recipeIndex, b, c)

\* C19: node ids are pairwise distinct; every relevant item is listed by
\* exactly one node, the one nodeIdMap gives; a meta-node lists, once each,
\* exactly the relevant members of one circular SCC; a plain node is for a
\* relevant item that is not circular; no other item is mapped.
C19_OneNodePerItem ==
  Built =>
    LET nodes == condensationGraph.nodes
        relevant == Range(condensationGraph.relevantProducts)
    IN /\ \A j, k \in 1..Len(nodes) : j # k => nodes[j].id # nodes[k].id
       /\ DOMAIN condensationGraph.nodeIdMap = relevant
       /\ \A x \in relevant :
            /\ Cardinality({k \in 1..Len(nodes) : Lists(nodes[k], x)}) = 1
            /\ \E k \in 1..Len(nodes) :
                 /\ Lists(nodes[k], x)
                 /\ nodes[k].id = condensationGraph.nodeIdMap[x]
                 /\ (nodes[k].type = "scc") <=> (x \in circularAnalysis.circularItems)
       /\ \A k \in 1..Len(nodes) :
            IF nodes[k].type = "scc"
            THEN /\ nodes[k].products # <<>>
                 /\ Cardinality(Range(nodes[k].products)) = Len(nodes[k].products)
                 /\ Range(nodes[k].products) = SameSCC(nodes[k].products[1]) \cap relevant
                 /\ Range(nodes[k].products) \subseteq circularAnalysis.circularItems
            ELSE nodes[k].className \in relevant

\* A graph with a meta-node of two items, a self-loop meta-node and a plain
\* node.
C19_Witness ==
  /\ Built
  /\ \E j, k, l \in 1..Len(condensationGraph.nodes) :
       /\ condensationGraph.nodes[j].type = "scc"
       /\ Len(condensationGraph.nodes[j].products) >= 2
       /\ condensationGraph.nodes[k].type = "scc"
       /\ Len(condensationGraph.nodes[k].products) = 1
       /\ condensationGraph.nodes[l].type = "product"

\* The ids of the recipes listed under a relevant item of node S that have
\* an ingredient mapped to node T.
RecipesBetween(S, T) ==
  {r.className :
     r \in {q \in ListedRecipes(recipeIndex) :
              /\ \E x \in DOMAIN condensationGraph.nodeIdMap :
                   /\ condensationGraph.nodeIdMap[x] = S
                   /\ q \in Range(RecipesOf(recipeIndex, x))
              /\ \E ing \in Range(q.ingredients) \cap DOMAIN condensationGraph.nodeIdMap :
                   condensationGraph.nodeIdMap[ing] = T}}

\* C20: there is at most one edge per (source, target) pair; its recipes are
\* the ids of all recipes listed under an item of the source node with an
\* ingredient in the target node, each once; isMulti tells whether there is
\* more than one.
C20_EdgeRecipes ==
  Built =>
    LET edges == condensationGraph.edges
    IN /\ \A j, k \in 1..Len(edges) :
            (edges[j].source = edges[k].source /\ edges[j].target = edges[k].target)
              => j = k
       /\ \A k \in 1..Len(edges) :
            /\ Range(edges[k].recipes) = RecipesBetween(edges[k].source, edges[k].target)
            /\ Len(edges[k].recipes) = Cardinality(Range(edges[k].recipes))
            /\ edges[k].isMulti <=>
                 (Cardinality(RecipesBetween(edges[k].source, edges[k].target)) > 1)

\* C20 for the edges that leave a plain node.
C20_PlainSourceRecipes ==
  Built =>
    LET edges == condensationGraph.edges
    IN /\ \A j, k \in 1..Len(edges) :
            (edges[j].source = edges[k].source /\ edges[j].target = edges[k].target)
              => j = k
       /\ \A k \in 1..Len(edges) :
            (\E n \in 1..Len(condensationGraph.nodes) :
                /\ condensationGraph.nodes[n].id = edges[k].source
                /\ condensationGraph.nodes[n].type = "product") =>
              /\ Range(edges[k].recipes) = RecipesBetween(edges[k].source, edges[k].target)
              /\ Len(edges[k].recipes) = Cardinality(Range(edges[k].recipes))
              /\ edges[k].isMulti <=>
                   (Cardinality(RecipesBetween(edges[k].source, edges[k].target)) > 1)

(***************************************************************************)
(* Claims about memoization, merging and truncation.                       *)
(***************************************************************************)
\* The run of the same recursion that never stores into the memo cache,
\* started with the counter at count: what the calls compute by themselves.
UncachedRun(count) == [NewRun(<<>>) EXCEPT !.caching = FALSE, !.count = count]

\* What the call computes when nothing is ever taken from the memo cache.
Uncached(item, currentPath, pathStack, circularEdges, depth, count) ==
  generateRecipeCombinations(item, recipeIndex, circularAnalysis,
                             lastCall.treatIngotsAsRaw, currentPath, pathStack,
                             circularEdges, depth, UncachedRun(count)).res

\* C21: the list the recursion returns with the memo cache in use is the list
\* it returns without it, and every cache hit returns what the call computes
\* from its own incoming path and counter.
C21_MemoTransparent ==
  Generated =>
    /\ lastCall.allResults = Uncached(lastCall.targetProduct, <<>>, <<>>, <<>>, 0, 0)
    /\ \A h \in lastCall.hitCalls :
         h.res = Uncached(h.item, h.currentPath, h.pathStack, h.circularEdges,
                          h.depth, h.count)

\* C21 for the calls that are never answered from the cache.
C21_NoHitTransparent ==
  (Generated /\ lastCall.hits = 0) =>
    lastCall.allResults = Uncached(lastCall.targetProduct, <<>>, <<>>, <<>>, 0, 0)

\* C22: the two paths of every merge give the same recipe to every item both
\* have, so that the merge the other way round gives the same assignment.
C22_MergeAgreement ==
  Generated =>
    \A m \in lastCall.merges :
       /\ \A x \in PathKeys(m.first) \cap PathKeys(m.rest) :
            PathGet(m.first, x) = PathGet(m.rest, x)
       /\ PathFunction(PathSpread(m.rest, m.first)) = PathFunction(m.merged)

\* C23: the merged path holds every key of both paths, and for an item both
\* paths have, the recipe of the left path; the circular-edge lists are
\* concatenated left then right.
C23_LeftBiasedMerge ==
  Generated =>
    /\ \A m \in lastCall.merges :
         /\ PathKeys(m.merged) = PathKeys(m.first) \cup PathKeys(m.rest)
         /\ \A x \in PathKeys(m.first) : PathGet(m.merged, x) = PathGet(m.first, x)
         /\ \A x \in PathKeys(m.rest) \ PathKeys(m.first) :
              PathGet(m.merged, x) = PathGet(m.rest, x)
    /\ \A L, R \in {<<>>, <<[from |-> "A", to |-> "B", recipeUsing |-> "a1"]>>,
                    <<[from |-> "B", to |-> "A", recipeUsing |-> "b2"]>>} :
         cartesianProductWithCirculars(
             <<<<[path |-> <<>>, circulars |-> L]>>, <<[path |-> <<>>, circulars |-> R]>>>>)
           = <<[path |-> <<>>, circulars |-> L \o R]>>

\* The keys and the right-hand precedence of the merge, with the
\* concatenation of the edge lists.
C23_RightBiasedMerge ==
  Generated =>
    \A m \in lastCall.merges :
       /\ PathKeys(m.merged) = PathKeys(m.first) \cup PathKeys(m.rest)
       /\ \A x \in PathKeys(m.rest) : PathGet(m.merged, x) = PathGet(m.rest, x)
       /\ \A x \in PathKeys(m.first) \ PathKeys(m.rest) :
            PathGet(m.merged, x) = PathGet(m.first, x)

\* C24: a product that would take the counter past the ceiling is cut to its
\* first (ceiling - counter) results, a number that is not negative; the
\* counter was not above the ceiling, becomes the ceiling, and the recipe
\* loop ends.
C24_SliceToBudget ==
  Generated =>
    \A t \in lastCall.truncations :
       /\ t.count <= MAX_COMBINATIONS
       /\ MAX_COMBINATIONS - t.count >= 0
       /\ Len(t.kept) = MAX_COMBINATIONS - t.count
       /\ t.kept = SubSeq(t.product, 1, Len(t.kept))
       /\ t.countAfter = MAX_COMBINATIONS

\* C24 without the sign of the budget: what is kept is the front of the
\* product, and the counter becomes the ceiling.
C24_SliceFront ==
  Generated =>
    \A t \in lastCall.truncations :
       /\ Len(t.kept) <= Len(t.product)
       /\ t.kept = SubSeq(t.product, 1, Len(t.kept))
       /\ t.count <= MAX_COMBINATIONS => Len(t.kept) = MAX_COMBINATIONS - t.count
       /\ t.countAfter = MAX_COMBINATIONS

(***************************************************************************)
(* Claims about the shape of the returned combinations.                    *)
(***************************************************************************)
\* The chain of a combination is ordered: no item has two entries, the
\* entry of the target comes last, each entry holds the recipe recipePath has
\* for its item, and an ingredient of an entry's recipe that has an entry of
\* its own comes before it unless the dependency is one of the combination's
\* circular edges.
ChainOrdered(c, targetProduct) ==
  LET chain == c.recipeChain
  IN /\ \A j, k \in 1..Len(chain) : j # k => chain[j].product # chain[k].product
     /\ PathHas(c.recipePath, targetProduct) =>
          (chain # <<>> /\ chain[Len(chain)].product = targetProduct)
     /\ \A k \in 1..Len(chain) :
          /\ PathHas(c.recipePath, chain[k].product)
          /\ chain[k].recipe = PathGet(c.recipePath, chain[k].product)
          /\ \A j \in 1..Len(chain) :
               chain[j].product \in Range(chain[k].recipe.ingredients) =>
                 \/ j < k
                 \/ \E e \in Range(c.circularEdges) :
                      e.from = chain[k].product /\ e.to = chain[j].product

\* C25: in a returned recipeChain no item has two entries, the entry of the
\* target comes last, and an ingredient of an entry's recipe that has an
\* entry of its own comes before it unless the dependency is one of the
\* combination's circular edges.
C25_ChainOrder ==
  Generated =>
    \A i \in 1..Len(lastCall.combinations) :
       ChainOrdered(lastCall.combinations[i], lastCall.targetProduct)

\* What does hold: the chains of a call in which no branch was ended by the
\* depth limit are ordered.
C25_ChainOrderWithinDepth ==
  (Generated /\ "depth" \notin lastCall.cut) =>
    \A i \in 1..Len(lastCall.combinations) :
       ChainOrdered(lastCall.combinations[i], lastCall.targetProduct)

\* The items the resolver never expands: the base resources and, under the
\* flag, the items whose name contains Ingot.
AlwaysLeaf(treatIngotsAsRaw) ==
  {x \in Items : x \in BASE_RESOURCES \/ (treatIngotsAsRaw /\ includesIngot(x))}

\* C26: no base resource and, under the flag, no ingot is a key of a
\* returned recipePath, the `to` end of a circular edge, or an item the
\* recursion expands or cuts, whatever recipes the index lists for it; a
\* target of that kind gets the single result with the empty path.
C26_RawPriority ==
  Generated =>
    LET leaf == AlwaysLeaf(lastCall.treatIngotsAsRaw)
    IN /\ \A i \in 1..Len(lastCall.combinations) :
            /\ PathKeys(lastCall.combinations[i].recipePath) \cap leaf = {}
            /\ \A e \in Range(lastCall.combinations[i].circularEdges) : e.to \notin leaf
       /\ \A e \in lastCall.expanded : e.item \notin leaf
       /\ \A c \in lastCall.cycleCuts : c.item \notin leaf
       /\ lastCall.targetProduct \in leaf =>
            /\ lastCall.allResults = <<[path |-> <<>>, circulars |-> <<>>]>>
            /\ Len(lastCall.combinations) = 1
            /\ lastCall.combinations[1].recipePath = <<>>
            /\ lastCall.combinations[1].recipeChain = <<>>

\* A combination that uses, as raw material, a base resource and an ingot
\* that both have recipes in the index.
C26_Witness ==
  /\ Generated
  /\ \E i \in 1..Len(lastCall.combinations) :
       \E x, y \in Range(lastCall.combinations[i].rawMaterials) :
          /\ x \in BASE_RESOURCES /\ RecipesOf(recipeIndex, x) # <<>>
          /\ includesIngot(y) /\ RecipesOf(recipeIndex, y) # <<>>

\* A target that is a base resource with a recipe in the index.
C26_WitnessTarget ==
  /\ Generated
  /\ lastCall.targetProduct \in BASE_RESOURCES
  /\ RecipesOf(recipeIndex, lastCall.targetProduct) # <<>>

\* The signature of a path: its (item, chosen recipe id) pairs.
SignatureOf(path) == {<<path[i].item, path[i].recipe.className>> : i \in 1..Len(path)}

\* C27: the combinations of one call have pairwise different ids and
\* pairwise different recipePaths; two paths get the same id exactly when
\* they have the same (item, recipe id) pairs; every signature among the raw
\* results has one combination, which carries the path and the circular
\* edges of the first raw result with that signature.
C27_NoDuplicates ==
  Generated =>
    LET cs == lastCall.combinations
        raw == lastCall.allResults
    IN /\ \A i, j \in 1..Len(cs) :
            i # j => /\ cs[i].id # cs[j].id
                     /\ SignatureOf(cs[i].recipePath) # SignatureOf(cs[j].recipePath)
       /\ \A k \in 1..Len(raw) :
            \E i \in 1..Len(cs) : SignatureOf(cs[i].recipePath) = SignatureOf(raw[k].path)
       /\ \A i \in 1..Len(cs) :
            \E k \in 1..Len(raw) :
               /\ SignatureOf(raw[k].path) = SignatureOf(cs[i].recipePath)
               /\ \A l \in 1..(k - 1) : SignatureOf(raw[l].path) # SignatureOf(raw[k].path)
               /\ cs[i].recipePath = raw[k].path
               /\ cs[i].circularEdges = raw[k].circulars

\* Raw results of one call that repeat a signature.
C27_Witness ==
  /\ Generated
  /\ \E k, l \in 1..Len(lastCall.allResults) :
       /\ k < l
       /\ SignatureOf(lastCall.allResults[k].path) = SignatureOf(lastCall.allResults[l].path)

\* The same next to a second signature (reached under SpecDeep).
C27_WitnessTwo ==
  /\ C27_Witness
  /\ Len(lastCall.combinations) >= 2

\* The items that need no chosen recipe: base resources, items without a
\* recipe in the index, and, under the flag, ingots.
RawIn(index, treatIngotsAsRaw) ==
  {y \in Items : \/ y \in BASE_RESOURCES
                 \/ RecipesOf(index, y) = <<>>
                 \/ (treatIngotsAsRaw /\ includesIngot(y))}

\* Every ingredient of every chosen recipe of the path is a key of the path
\* or raw.
FullyResolved(path, index, treatIngotsAsRaw) ==
  \A i \in 1..Len(path) :
     \A y \in Range(path[i].recipe.ingredients) :
        PathHas(path, y) \/ y \in RawIn(index, treatIngotsAsRaw)

\* C28: when no branch of the call met the depth limit or the ceiling,
\* every returned combination is fully resolved.
C28_FullyResolved ==
  (Generated /\ lastCall.cut = {}) =>
    \A i \in 1..Len(lastCall.combinations) :
       FullyResolved(lastCall.combinations[i].recipePath, recipeIndex,
                     lastCall.treatIngotsAsRaw)

\* What does hold: the same for the calls that were answered without a
\* cache hit.
C28_FullyResolvedNoHit ==
  (Generated /\ lastCall.cut = {} /\ lastCall.hits = 0) =>
    \A i \in 1..Len(lastCall.combinations) :
       FullyResolved(lastCall.combinations[i].recipePath, recipeIndex,
                     lastCall.treatIngotsAsRaw)

\* C29: every circular edge of a returned combination agrees with the
\* combination's recipePath: the path has entries for both ends, the recipe
\* it holds for `from` is the one the edge names, and `to` is an ingredient
\* of that recipe.
C29_EdgesAgreeWithPath ==
  Generated =>
    \A i \in 1..Len(lastCall.combinations) :
       LET c == lastCall.combinations[i]
       IN \A e \in Range(c.circularEdges) :
            /\ PathHas(c.recipePath, e.from)
            /\ PathHas(c.recipePath, e.to)
            /\ PathGet(c.recipePath, e.from).className = e.recipeUsing
            /\ e.to \in Range(PathGet(c.recipePath, e.from).ingredients)

\* A combination with a circular edge between two different items whose
\* path has a third item.
C29_Witness ==
  /\ Generated
  /\ \E i \in 1..Len(lastCall.combinations) :
       /\ Cardinality(PathKeys(lastCall.combinations[i].recipePath)) >= 3
       /\ \E e \in Range(lastCall.combinations[i].circularEdges) : e.from # e.to

\* The same from a call in which a cached result was reused (reached under
\* SpecDeep).
C29_WitnessHit ==
  /\ Generated
  /\ lastCall.hits > 0
  /\ \E i \in 1..Len(lastCall.combinations) :
       \E e \in Range(lastCall.combinations[i].circularEdges) : e.from # e.to

\* The keys of the path reached from the given items by following the
\* ingredients of the chosen recipes.
RECURSIVE ReachableKeys(_, _)
ReachableKeys(path, reached) ==
  LET more == {y \in PathKeys(path) :
                 \E x \in reached : y \in Range(PathGet(path, x).ingredients)}
  IN IF more \subseteq reached THEN reached
     ELSE ReachableKeys(path, reached \cup more)

\* Every key of the path is reached from the target, the chain has one entry
\* for every key, and every raw material is an ingredient of a recipe of the
\* chain.
ChainCoversPath(c, targetProduct) ==
  LET keys == PathKeys(c.recipePath)
      chain == c.recipeChain
  IN /\ keys \subseteq ReachableKeys(c.recipePath, {targetProduct} \cap keys)
     /\ {chain[k].product : k \in 1..Len(chain)} = keys
     /\ Len(chain) = Cardinality(keys)
     /\ \A m \in Range(c.rawMaterials) :
          \E k \in 1..Len(chain) : m \in Range(chain[k].recipe.ingredients)

\* C30: in every returned combination every key of recipePath is reachable
\* from the target through the chosen recipes, recipeChain has exactly one
\* entry for every key, and rawMaterials lists only ingredients of recipes
\* of the chain.
C30_ChainCoversPath ==
  Generated =>
    \A i \in 1..Len(lastCall.combinations) :
       ChainCoversPath(lastCall.combinations[i], lastCall.targetProduct)

\* What does hold: the same for the calls answered without a cache hit.
C30_ChainCoversPathNoHit ==
  (Generated /\ lastCall.hits = 0) =>
    \A i \in 1..Len(lastCall.combinations) :
       ChainCoversPath(lastCall.combinations[i], lastCall.targetProduct)

====
